---- MODULE Spec2Model ----
(***************************************************************************)
(* Model of the mens-amplio LED compositing engine:                        *)
(*   led/renderer.py      Renderer, LinearFade, TwoStepFade, FastFade,     *)
(*                        TwoStepLinearFade                                *)
(*   led/effects/base.py  EffectLayer subclasses, GammaLayer,              *)
(*                        HeadsetResponsiveEffectLayer                     *)
(* The clock is sampled in ticks of half a second.  Durations, frame       *)
(* values, fade weights and sensor levels are exact rationals              *)
(* <<numerator, denominator>> standing for the floats of the program; one  *)
(* LED component stands for the whole frame (every numpy operation used    *)
(* is element-wise).                                                       *)
(***************************************************************************)
EXTENDS Integers, Sequences, FiniteSets, TLC

VARIABLES
    useFastFades,    \* Renderer.useFastFades
    config,          \* which playlists dictionary the Renderer was built with
    cursor,          \* Playlist cursor of every playlist of the dictionary
    activePlaylist,  \* Renderer.activePlaylist
    nextPlaylist,    \* Renderer.nextPlaylist
    fade,            \* Renderer.fade (NoFade for None)
    nfades,          \* number of Fade objects constructed so far (object identity)
    now,             \* the wall clock read by time.time()
    call,            \* what the last call did: its kind, its trace, the frame it left
    endSeen,         \* history: the held fade has rendered an end-scene layer
    faulty,          \* the layer classes whose render() raises when called
    measurements,    \* HeadsetResponsiveEffectLayer.measurements
    timestamps,      \* HeadsetResponsiveEffectLayer.timestamps
    last_eeg,        \* HeadsetResponsiveEffectLayer.last_eeg
    last_response_level, \* HeadsetResponsiveEffectLayer.last_response_level
    fading_to,       \* HeadsetResponsiveEffectLayer.fading_to
    eeg,             \* params.eeg, the reading object the caller passes
    nreadings,       \* number of reading objects created so far (object identity)
    hnow,            \* the wall clock read by HeadsetResponsiveEffectLayer.render
    hcall            \* what the last HeadsetResponsiveEffectLayer.render call did

rvars == <<useFastFades, config, cursor, activePlaylist, nextPlaylist, fade,
           nfades, now, call, endSeen, faulty>>
hvars == <<measurements, timestamps, last_eeg, last_response_level, fading_to,
           eeg, nreadings, hnow, hcall>>
vars == <<rvars, hvars>>

----------------------------------------------------------------------------
(* Bounds of the model *)

MaxTime == 6        \* last clock tick of a Renderer run
MaxDrift == 1        \* ticks the clock may advance between two reads in one call
MaxFades == 2        \* transition requests per run
HMaxTime == 6        \* last clock tick of a HeadsetResponsiveEffectLayer run
MaxReadings == 4     \* headset readings per run
LiveRoom == 6        \* ticks past MaxTime a held fade is given to run out

----------------------------------------------------------------------------
(* Exact rational arithmetic standing for the float arithmetic of numpy *)

Abs(n) == IF n < 0 THEN -n ELSE n

\* Every operation takes the value of each operand once (a \in {x}) and
\* computes with the values, as the program computes with floats.
RECURSIVE GCD(_, _)
GCD(a, b) == IF b = 0 THEN a ELSE CHOOSE g \in {GCD(b, r) : r \in {a % b}} : TRUE

Rat(n, d) ==
    LET g == GCD(Abs(n), d) IN <<n \div g, d \div g>>

Zero == Rat(0, 1)
One == Rat(1, 1)
RAdd(x, y) ==
    CHOOSE r \in {Rat(a[1] * b[2] + b[1] * a[2], a[2] * b[2]) : a \in {x}, b \in {y}} : TRUE
RSub(x, y) ==
    CHOOSE r \in {Rat(a[1] * b[2] - b[1] * a[2], a[2] * b[2]) : a \in {x}, b \in {y}} : TRUE
RMul(x, y) ==
    CHOOSE r \in {Rat(a[1] * b[1], a[2] * b[2]) : a \in {x}, b \in {y}} : TRUE
RGeq(x, y) == \E a \in {x}, b \in {y} : a[1] * b[2] >= b[1] * a[2]
RLess(x, y) == \E a \in {x}, b \in {y} : a[1] * b[2] < b[1] * a[2]
RFloor(x) == x[1] \div x[2]
RDiv(x, y) ==
    CHOOSE r \in {IF b[1] < 0 THEN Rat(-(a[1] * b[2]), a[2] * (-b[1]))
                  ELSE Rat(a[1] * b[2], a[2] * b[1]) : a \in {x}, b \in {y}} : TRUE

----------------------------------------------------------------------------
(* Effect layers (led/effects/base.py, led/effects/plasma.py) *)

EdgeCenter == Rat(1, 2)      \* model.edgeCenters, the value RGBLayer copies
NoiseValue == Rat(1, 2)      \* the scaled noise PlasmaLayer computes for the LED
PlasmaColor == Rat(1, 4)     \* a PlasmaLayer colour component

\* render() of one layer class applied to frame value x
LayerRender(cls, x) ==
    CASE cls = "RGBLayer" -> EdgeCenter                       \* frame[:] = model.edgeCenters[:]
      [] cls = "WhiteOutLayer" -> RAdd(x, One)                 \* frame += numpy.ones(frame.shape)
      [] cls = "PlasmaLayer" -> RMul(x, NoiseValue)            \* color is None: multiply
      [] cls = "ColorPlasmaLayer" -> RAdd(x, RMul(PlasmaColor, NoiseValue))

\* layer.safely_render(model, params, frame): the layer's render, contained;
\* a layer whose render raises is skipped and the frame stays as it was
SafelyRender(cls, x) == IF cls \in faulty THEN x ELSE LayerRender(cls, x)

\* a loop over the layers that the first failing layer ends
RECURSIVE RenderLayersAbort(_, _)
RenderLayersAbort(layers, x) ==
    IF layers = <<>> \/ Head(layers) \in faulty THEN x
    ELSE RenderLayersAbort(Tail(layers), LayerRender(Head(layers), x))

\* for layer in layers: layer.safely_render(model, params, frame)
RECURSIVE RenderLayers(_, _)
RenderLayers(layers, x) ==
    IF layers = <<>> THEN x
    ELSE RenderLayers(Tail(layers), SafelyRender(Head(layers), x))

\* effect.transitionFadeTime, in ticks: a quarter second, or half a second
TransitionFadeTime(cls) ==
    CASE cls = "WhiteOutLayer" -> Rat(1, 1)
      [] OTHER -> Rat(1, 2)

\* GammaLayer(gamma) for gamma = 2: lutX = arange(0, 1, 0.01), lutY = lutX ** gamma
LutX(k) == Rat(k, 100)
LutY(k) == RMul(LutX(k), LutX(k))
LutLast == 99

\* GammaLayer.render: numpy.interp(frame, lutX, lutY), piecewise linear, clamped
\* to lutY[0] on the left and lutY[-1] on the right
Interp(x) ==
    IF ~RLess(Zero, x) THEN LutY(0)
    ELSE IF RGeq(x, LutX(LutLast)) THEN LutY(LutLast)
    ELSE CHOOSE y \in
            {LET slope == RMul(RSub(LutY(k + 1), LutY(k)), Rat(100, 1))
             IN RAdd(LutY(k), RMul(RSub(x, LutX(k)), slope)) :
               k \in {RFloor(RMul(x, Rat(100, 1)))}} : TRUE

GammaRender(x) == CHOOSE y \in {Interp(v) : v \in {x}} : TRUE

----------------------------------------------------------------------------
(* Scenes and playlists *)

NoneStr == "None"                       \* Python None where a name is expected
NoLayers == [id |-> NoneStr, layers |-> <<>>]   \* None where a layer list is expected

Scene(id) ==
    CASE id = "scene1" -> [id |-> id, layers |-> <<"RGBLayer">>]
      [] id = "scene2" -> [id |-> id, layers |-> <<"WhiteOutLayer">>]
      [] id = "scene3" -> [id |-> id, layers |-> <<"RGBLayer", "PlasmaLayer">>]
      [] id = "scene4" -> [id |-> id, layers |-> <<"WhiteOutLayer">>]
      [] id = "scene5" -> [id |-> id, layers |-> <<"ColorPlasmaLayer">>]

\* The playlists dictionaries a Renderer is constructed with
Configs == {"two", "three"}

PlaylistNames(cfg) == IF cfg = "two" THEN {"A", "B"} ELSE {"A", "B", "T"}

\* Playlist(scenes, shuffle): the scene list and the advance policy
Playlists(cfg, name) ==
    CASE cfg = "two" /\ name = "A" -> [scenes |-> <<"scene1">>, shuffle |-> FALSE]
      [] cfg = "two" /\ name = "B" -> [scenes |-> <<"scene2">>, shuffle |-> FALSE]
      [] cfg = "three" /\ name = "A" -> [scenes |-> <<"scene1", "scene3">>, shuffle |-> FALSE]
      [] cfg = "three" /\ name = "B" -> [scenes |-> <<"scene2">>, shuffle |-> FALSE]
      [] cfg = "three" /\ name = "T" -> [scenes |-> <<"scene4", "scene5">>, shuffle |-> TRUE]

\* Playlist.selection(): the scene under the cursor
Selection(cfg, cur, name) == Scene(Playlists(cfg, name).scenes[cur[name]])

\* Playlist.advance(): the cursors it may move to (sequential wrap-around, or
\* a reselection that avoids the current scene when another one exists)
AdvanceTargets(cfg, cur, name) ==
    LET pl == Playlists(cfg, name)
        n == Len(pl.scenes)
    IN IF pl.shuffle
       THEN IF n = 1 THEN {cur[name]} ELSE (1..n) \ {cur[name]}
       ELSE {(cur[name] % n) + 1}

----------------------------------------------------------------------------
(* Fades (led/renderer.py) *)

NoStart == -1        \* LinearFade.start = None

\* The request that constructed a fade: advance or swap, the playlist that was
\* active, and the playlist asked for
NoRequest == [kind |-> NoneStr, from |-> NoneStr, target |-> NoneStr]
NoFade == [type |-> NoneStr, done |-> FALSE, id |-> 0, by |-> NoRequest]   \* Renderer.fade = None

\* An entry of a render call's trace: which layer was rendered, out of which
\* layer list ("start", "end", or "direct" for the active selection)
Entries(role, scene) ==
    [i \in 1..Len(scene.layers) |->
        [role |-> role, scene |-> scene.id, layer |-> scene.layers[i]]]
GammaEntry == [role |-> "gamma", scene |-> NoneStr, layer |-> "GammaLayer"]

\* Fade.__init__ / LinearFade.__init__; id and by stand for the identity of the
\* object and the request that constructed it
LinearFade(startLayers, endLayers, duration) ==
    [type |-> "LinearFade", done |-> FALSE, id |-> 0, by |-> NoRequest,
     startLayers |-> startLayers, endLayers |-> endLayers,
     duration |-> duration, start |-> NoStart]

\* What a call observed of the LinearFade it rendered
NoLinear == [rendered |-> FALSE, first |-> FALSE, elapsed |-> 0, duration |-> Zero,
             startLayers |-> NoneStr, endLayers |-> NoneStr, start |-> NoStart,
             done |-> FALSE]

\* a blend that forgets to scale the start layers' frame2
BlendUnscaled(x, frame2, percentDone) ==
    RAdd(RMul(x, percentDone), frame2)

\* lines 137-143: the frame scaled by percentDone, plus the start layers'
\* frame2 scaled by 1-percentDone
Blend(x, frame2, percentDone) ==
    RAdd(RMul(x, percentDone), RMul(frame2, RSub(One, percentDone)))

\* a completion test that needs percentDone to hit 1 exactly
FinishedExact(percentDone) == percentDone = One

\* a completion test that needs percentDone > 1
FinishedStrict(percentDone) == RLess(One, percentDone)

\* line 132: percentDone >= 1
Finished(percentDone) == RGeq(percentDone, One)

\* LinearFade.render; t1 is the clock read that sets start (taken only when
\* start is unset), t2 the clock read that percentDone is computed from
LinearFadeRender(f, t1, t2, x) ==
    LET first == f.start = NoStart \/ f.start = 0          \* not self.start
        start == IF first THEN t1 ELSE f.start
        hasEnd == f.endLayers.layers # <<>>                \* if self.endLayers
        endFrame == IF hasEnd THEN RenderLayers(f.endLayers.layers, x) ELSE x
        endLog == IF hasEnd THEN Entries("end", f.endLayers) ELSE <<>>
        elapsed == t2 - start
        seen == [rendered |-> TRUE, first |-> first, elapsed |-> elapsed,
                 duration |-> f.duration, startLayers |-> f.startLayers.id,
                 endLayers |-> f.endLayers.id, start |-> start, done |-> FALSE]
    IN IF f.duration = Zero
       THEN \* float division by zero: ZeroDivisionError leaves render
            [fade |-> [f EXCEPT !.start = start], frame |-> endFrame,
             log |-> endLog, raised |-> TRUE, lf |-> seen]
       ELSE CHOOSE out \in
              {IF Finished(percentDone)
               THEN [fade |-> [f EXCEPT !.start = start, !.done = TRUE],
                     frame |-> endFrame, log |-> endLog, raised |-> FALSE,
                     lf |-> [seen EXCEPT !.done = TRUE]]
               ELSE LET hasStart == f.startLayers.layers # <<>>  \* if self.startLayers
                        frame2 == RenderLayers(f.startLayers.layers, Zero)
                    IN [fade |-> [f EXCEPT !.start = start],
                        frame |-> IF hasStart THEN Blend(endFrame, frame2, percentDone)
                                  ELSE RMul(endFrame, percentDone),
                        log |-> IF hasStart
                                THEN endLog \o Entries("start", f.startLayers)
                                ELSE endLog,
                        raised |-> FALSE,
                        lf |-> seen] :
                 percentDone \in {RDiv(Rat(elapsed, 1), f.duration)}} : TRUE

\* TwoStepFade.__init__
TwoStepFade(type, fade1, fade2, startLayers, endLayers) ==
    [type |-> type, done |-> FALSE, id |-> 0, by |-> NoRequest,
     startLayers |-> startLayers, endLayers |-> endLayers,
     fade1 |-> fade1, fade2 |-> fade2]

\* a done flag copied from the first sub-fade
TwoStepDoneFirst(fade1, fade2) == fade1.done

\* line 157: self.done = self.fade2.done
TwoStepDone(fade1, fade2) == fade2.done

\* TwoStepFade.render
TwoStepFadeRender(f, t1, t2, x) ==
    IF ~f.fade1.done
    THEN CHOOSE out \in {[r EXCEPT !.fade = [f EXCEPT !.fade1 = r.fade]] :
                            r \in {LinearFadeRender(f.fade1, t1, t2, x)}} : TRUE
    ELSE CHOOSE out \in
            {[r EXCEPT !.fade =
                 IF r.raised THEN [f EXCEPT !.fade2 = r.fade]
                 ELSE [f EXCEPT !.fade2 = r.fade,
                                !.done = TwoStepDone(f.fade1, r.fade)]] :
               r \in {LinearFadeRender(f.fade2, t1, t2, x)}} : TRUE

\* a FastFade whose first half crossfades into the end layers
FastFadeCross(startLayers, endLayers, duration) ==
    TwoStepFade("FastFade",
                LinearFade(startLayers, endLayers, RDiv(duration, Rat(2, 1))),
                LinearFade(NoLayers, endLayers, RDiv(duration, Rat(2, 1))),
                startLayers, endLayers)

\* FastFade.__init__
FastFade(startLayers, endLayers, duration) ==
    TwoStepFade("FastFade",
                LinearFade(startLayers, NoLayers, RDiv(duration, Rat(2, 1))),
                LinearFade(NoLayers, endLayers, RDiv(duration, Rat(2, 1))),
                startLayers, endLayers)

\* TwoStepLinearFade.__init__
TwoStepLinearFade(currLayers, nextLayers, finalLayers, duration_1, duration_2) ==
    TwoStepFade("TwoStepLinearFade",
                LinearFade(currLayers, nextLayers, duration_1),
                LinearFade(nextLayers, finalLayers, duration_2),
                currLayers, finalLayers)

\* fade.render, dispatched on the class of the fade
FadeRender(f, t1, t2, x) ==
    IF f.type = "LinearFade" THEN LinearFadeRender(f, t1, t2, x)
    ELSE TwoStepFadeRender(f, t1, t2, x)

----------------------------------------------------------------------------
(* Renderer (led/renderer.py) *)

QuarterSecond == Rat(1, 2)           \* the 0.25 of TwoStepLinearFade(..., 0.25, ...)
OneSecond == Rat(2, 1)               \* the default fadeTime=1
TwoSeconds == Rat(4, 1)
AdvanceFadeTimes == {OneSecond}      \* fadeTime of advanceCurrentPlaylist: the default
SwapFadeTimes == {Zero, TwoSeconds}  \* fadeTime of swapPlaylists: an instant swap, 2 s
FrameInputs == {Rat(1, 4)}           \* contents of the caller's frame at a call

AllNames == {"A", "B", "T"}


\* The record of a call that is not a render call, or before any call
\*   op           "render", "advance", "swap"
\*   raised       the call left by an exception
\*   frameIn      the frame passed to render; frame: the frame it left
\*   composite    the frame before the gamma stage
\*   log          the layers rendered, in order, and the gamma stage
\*   fadeBefore   the fade held when the call began; fadeAfter: that fade
\*                object when the call ended; lf: its LinearFade that rendered
\*   replaced     the request replaced a fade that had begun to render
\*   intermediate, advanceAfterFadeOut   the arguments of swapPlaylists
NoCall == [op |-> "none", raised |-> FALSE, frameIn |-> Zero, log |-> <<>>,
           composite |-> Zero, frame |-> Zero, lf |-> NoLinear,
           fadeBefore |-> NoFade, fadeAfter |-> NoFade, replaced |-> FALSE,
           intermediate |-> NoneStr, advanceAfterFadeOut |-> FALSE]

\* lines 57-59: if self.nextPlaylist: self.activePlaylist = self.nextPlaylist
CommitActive(active, next) == IF next # NoneStr THEN next ELSE active

\* a commit that leaves the pending name set
CommitNextKept(next) == next

\* lines 57-59: ...; self.nextPlaylist = None
CommitNext(next) == NoneStr

\* a gamma stage that is skipped in the call that retires the fade
GammaStageSkipped(branch, x, log) ==
    IF branch = "done" THEN [frame |-> x, log |-> log]
    ELSE [frame |-> GammaRender(x), log |-> Append(log, GammaEntry)]

\* line 64: self.gammaLayer.render(model, params, frame), after the branch
\* taken ("fading", "done" or "direct")
GammaStage(branch, x, log) ==
    [frame |-> GammaRender(x), log |-> Append(log, GammaEntry)]

\* lines 55-64 of Renderer.render, after self.fade.render has returned or
\* raised with outcome r
AfterFadeRender(active, next, f, x, r) ==
    LET branch == IF r.fade.done THEN "done" ELSE "fading"
        seen == [op |-> "render", raised |-> r.raised, frameIn |-> x,
                 log |-> r.log, composite |-> r.frame, frame |-> r.frame,
                 lf |-> r.lf, fadeBefore |-> f, fadeAfter |-> r.fade,
                 replaced |-> FALSE, intermediate |-> NoneStr,
                 advanceAfterFadeOut |-> FALSE]
    IN IF r.raised
       THEN [activePlaylist |-> active, nextPlaylist |-> next,
             fade |-> r.fade, call |-> seen]
       ELSE [activePlaylist |-> IF r.fade.done THEN CommitActive(active, next)
                                ELSE active,
             nextPlaylist |-> IF r.fade.done THEN CommitNext(next) ELSE next,
             fade |-> IF r.fade.done THEN NoFade ELSE r.fade,
             call |-> CHOOSE c \in {[seen EXCEPT !.log = g.log, !.frame = g.frame] :
                                      g \in {GammaStage(branch, r.frame, r.log)}} : TRUE]

\* Renderer.render(model, params, frame)
RendererRender(cfg, cur, active, next, f, t1, t2, x) ==
    IF f.type # NoneStr                                     \* if self.fade
    THEN CHOOSE out \in {AfterFadeRender(active, next, f, x, r) :
                            r \in {FadeRender(f, t1, t2, x)}} : TRUE
    ELSE IF active # NoneStr /\ active \notin PlaylistNames(cfg)
    THEN \* self.playlists[playlistKey] raises KeyError in _active()
         [activePlaylist |-> active, nextPlaylist |-> next, fade |-> f,
          call |-> [NoCall EXCEPT !.op = "render", !.raised = TRUE,
                                  !.frameIn = x, !.composite = x, !.frame = x]]
    ELSE LET sel == Selection(cfg, cur, active)
             direct == active # NoneStr                     \* elif self.activePlaylist
             log == IF direct THEN Entries("direct", sel) ELSE <<>>
         IN [activePlaylist |-> active, nextPlaylist |-> next, fade |-> f,
             call |-> CHOOSE c \in UNION
                         {{[NoCall EXCEPT !.op = "render", !.frameIn = x,
                                          !.log = g.log, !.composite = out,
                                          !.frame = g.frame] :
                             g \in {GammaStage("direct", out, log)}} :
                            out \in {IF direct THEN RenderLayers(sel.layers, x)
                                     ELSE x}} : TRUE]

\* Renderer._fadeTimeForTransition(playlist)
RECURSIVE MaxTransition(_)
MaxTransition(layers) ==
    IF Len(layers) = 1 THEN TransitionFadeTime(Head(layers))
    ELSE LET m == MaxTransition(Tail(layers))
             h == TransitionFadeTime(Head(layers))
         IN IF RLess(m, h) THEN h ELSE m
FadeTimeForTransition(cfg, cur, name) == MaxTransition(Selection(cfg, cur, name).layers)

\* an install that lets a held fade run on
InstallFadeKept(old, new) == IF old.type # NoneStr THEN old ELSE new

\* self.fade = <new fade> in advanceCurrentPlaylist and swapPlaylists
InstallFade(old, new) == new

\* The fade swapPlaylists constructs (lines 88-97)
SwapFade(cfg, cur, fast, active, target, intermediate, fadeTime) ==
    IF fast
    THEN FastFade(Selection(cfg, cur, active), Selection(cfg, cur, target), fadeTime)
    ELSE IF intermediate # NoneStr
         THEN TwoStepLinearFade(Selection(cfg, cur, active),
                                Selection(cfg, cur, intermediate),
                                Selection(cfg, cur, target),
                                QuarterSecond,
                                FadeTimeForTransition(cfg, cur, intermediate))
         ELSE LinearFade(Selection(cfg, cur, active), Selection(cfg, cur, target),
                         fadeTime)

----------------------------------------------------------------------------
(* HeadsetResponsiveEffectLayer (led/effects/base.py) *)

NoLevel == <<>>                      \* None where a response level is expected
NoEeg == [id |-> 0, on |-> FALSE, value |-> Zero]    \* params.eeg = None
Readings == {Zero, Rat(1, 2), One}   \* values of the field respond_to names
smooth_response_over_n_secs == One   \* the constructor argument (default 5)
Seconds(ticks) == Rat(ticks, 2)      \* a clock difference, in seconds

\* truth value of a level in "if self.fading_to" / "if not self.last_response_level"
Truthy(level) == level # NoLevel /\ level[1] # 0

\* What the last render call of the layer did:
\*   accepted     the call took params.eeg as a new reading
\*   history      len(self.measurements) when the call began
\*   levelBefore, fadingBefore   last_response_level, fading_to when it began
\*   value        the reading's value of the field respond_to names
\*   elapsed      ticks since the newest timestamp (calls that accept nothing)
\*   response_level   the level passed to render_responsive
NoHCall == [op |-> "none", accepted |-> FALSE, history |-> 0,
            levelBefore |-> NoLevel, fadingBefore |-> NoLevel,
            value |-> Zero, elapsed |-> 0, response_level |-> NoLevel]

\* HeadsetResponsiveEffectLayer.__init__
HInit ==
    /\ measurements = <<>>
    /\ timestamps = <<>>
    /\ last_eeg = NoEeg
    /\ last_response_level = NoLevel
    /\ fading_to = NoLevel
    /\ eeg = NoEeg
    /\ nreadings = 0
    /\ hnow = 1
    /\ hcall = NoHCall

\* start_fade(new_level): the resulting <<last_response_level, fading_to>>
StartFade(level, fading, new_level) ==
    IF ~Truthy(level) THEN <<new_level, fading>> ELSE <<level, new_level>>

\* end_fade(): the resulting <<last_response_level, fading_to>>
EndFade(level, fading) == <<fading, NoLevel>>

\* sum(self.measurements)
RECURSIVE Sum(_)
Sum(ms) == IF ms = <<>> THEN Zero ELSE RAdd(Head(ms), Sum(Tail(ms)))

\* a hard cutoff: the first entry older than the window is dropped as well
RECURSIVE KeptHardCutoff(_, _)
KeptHardCutoff(ts, idx) ==
    IF idx >= Len(ts) THEN Len(ts)
    ELSE IF RLess(smooth_response_over_n_secs, Seconds(ts[1] - ts[idx + 1]))
         THEN idx
         ELSE KeptHardCutoff(ts, idx + 1)

\* lines 79-87: the number of entries kept, walking from the newest (idx = 0)
\* to the first entry older than the window
RECURSIVE Kept(_, _)
Kept(ts, idx) ==
    IF idx >= Len(ts) THEN Len(ts)
    ELSE IF RLess(smooth_response_over_n_secs, Seconds(ts[1] - ts[idx + 1]))
         THEN idx + 1
         ELSE Kept(ts, idx + 1)

\* lines 71-90: render when params.eeg is a new valid reading
AcceptReading(ms, ts, level, fading, e, t) ==
    LET ended == IF Truthy(fading) THEN EndFade(level, fading) ELSE <<level, fading>>
        ms1 == <<e.value>> \o ms
        ts1 == <<t>> \o ts
        n == Kept(ts1, 0)
        ms2 == SubSeq(ms1, 1, n)
        ts2 == SubSeq(ts1, 1, n)
        mean == RDiv(Sum(ms2), Rat(Len(ms2), 1))
        started == IF Len(ms2) > 1 THEN StartFade(ended[1], ended[2], mean) ELSE ended
    IN [measurements |-> ms2, timestamps |-> ts2, last_eeg |-> e,
        last_response_level |-> started[1], fading_to |-> started[2],
        response_level |-> started[1]]

\* lines 91-100: render while a fade is pending and there is no new reading
ContinueFade(ms, ts, level, fading, e, t) ==
    LET fade_progress == Seconds(t - ts[1])
        ended == EndFade(level, fading)
    IN IF RGeq(fade_progress, One)
       THEN [measurements |-> ms, timestamps |-> ts, last_eeg |-> e,
             last_response_level |-> ended[1], fading_to |-> ended[2],
             response_level |-> ended[1]]
       ELSE [measurements |-> ms, timestamps |-> ts, last_eeg |-> e,
             last_response_level |-> level, fading_to |-> fading,
             response_level |-> RAdd(RMul(fade_progress, fading),
                                     RMul(RSub(One, fade_progress), level))]

\* HeadsetResponsiveEffectLayer.render up to the call of render_responsive
HeadsetRender(ms, ts, last, level, fading, e, t) ==
    IF e # NoEeg /\ e # last /\ e.on
    THEN AcceptReading(ms, ts, level, fading, e, t)
    ELSE IF Truthy(fading)
         THEN ContinueFade(ms, ts, level, fading, last, t)
         ELSE [measurements |-> ms, timestamps |-> ts, last_eeg |-> last,
               last_response_level |-> level, fading_to |-> fading,
               response_level |-> NoLevel]         \* response_level = None

\* time passes between frames
HTick ==
    /\ hnow < HMaxTime
    /\ hnow' = hnow + 1
    /\ hcall' = NoHCall
    /\ UNCHANGED <<measurements, timestamps, last_eeg, last_response_level,
                   fading_to, eeg, nreadings>>
    /\ UNCHANGED rvars

\* the headset delivers a reading: params.eeg is a new object from now on
NewReading(on, value) ==
    /\ nreadings < MaxReadings
    /\ nreadings' = nreadings + 1
    /\ eeg' = [id |-> nreadings + 1, on |-> on, value |-> value]
    /\ hcall' = NoHCall
    /\ UNCHANGED <<measurements, timestamps, last_eeg, last_response_level,
                   fading_to, hnow>>
    /\ UNCHANGED rvars

\* one frame: layer.render(model, params, frame)
HRender ==
    /\ \E r \in {HeadsetRender(measurements, timestamps, last_eeg,
                               last_response_level, fading_to, eeg, hnow)} :
          /\ measurements' = r.measurements
          /\ timestamps' = r.timestamps
          /\ last_eeg' = r.last_eeg
          /\ last_response_level' = r.last_response_level
          /\ fading_to' = r.fading_to
          /\ hcall' = [op |-> "render",
                       accepted |-> r.last_eeg # last_eeg,
                       history |-> Len(measurements),
                       levelBefore |-> last_response_level,
                       fadingBefore |-> fading_to,
                       value |-> eeg.value,
                       elapsed |-> IF timestamps = <<>> THEN 0
                                   ELSE hnow - timestamps[1],
                       response_level |-> r.response_level]
    /\ UNCHANGED <<eeg, nreadings, hnow>>
    /\ UNCHANGED rvars

HNext ==
    \/ HTick
    \/ \E on \in BOOLEAN, value \in Readings : NewReading(on, value)
    \/ HRender

RFixed ==
    /\ config = "two"
    /\ useFastFades = FALSE
    /\ activePlaylist = "A"
    /\ cursor = [n \in AllNames |-> 1]
    /\ nextPlaylist = NoneStr
    /\ fade = NoFade
    /\ nfades = 0
    /\ now = 1
    /\ call = NoCall
    /\ endSeen = FALSE
    /\ faulty = {}

HeadsetInit == RFixed /\ HInit

SpecHeadset == HeadsetInit /\ [][HNext]_vars

\* the headset delivers one reading a second (every second tick, from the
\* first), always on and always carrying the value of the first one
ConstantReading(value) ==
    /\ hnow = 2 * nreadings + 1
    /\ nreadings > 0 => value = eeg.value
    /\ NewReading(TRUE, value)

ConstantNext ==
    \/ HTick
    \/ \E value \in Readings : ConstantReading(value)
    \/ HRender

SpecConstantFeed == HeadsetInit /\ [][ConstantNext]_vars

----------------------------------------------------------------------------
(* The Renderer as a state machine *)

RInit ==
    /\ config \in Configs
    /\ useFastFades \in BOOLEAN
    /\ activePlaylist = "A"
    /\ cursor = [n \in AllNames |-> 1]
    /\ nextPlaylist = NoneStr
    /\ fade = NoFade
    /\ nfades = 0
    /\ now = 1
    /\ call = NoCall
    /\ endSeen = FALSE

\* every layer renders without error
NoFaults == faulty = {}

\* the layer classes that may be broken, one at a time
Faults == {{"RGBLayer"}, {"PlasmaLayer"}, {"WhiteOutLayer"}}

\* one layer class is broken (malformed cached state): its render() raises
SomeFault == faulty \in Faults

\* time passes between calls
Tick ==
    /\ now < MaxTime
    /\ now' = now + 1
    /\ call' = NoCall
    /\ UNCHANGED <<useFastFades, config, cursor, activePlaylist, nextPlaylist,
                   fade, nfades, endSeen, faulty>>
    /\ UNCHANGED hvars

\* the LinearFade that the next render call of fade f reaches has no start yet,
\* so that call reads the clock twice
ReadsClockTwice(f) ==
    LET NoStartYet(l) == l.start = NoStart \/ l.start = 0
    IN /\ f.type # NoneStr
       /\ IF f.type = "LinearFade" THEN NoStartYet(f)
          ELSE IF ~f.fade1.done THEN NoStartYet(f.fade1) ELSE NoStartYet(f.fade2)

\* one frame: renderer.render(model, params, frame); the clock advances by dt
\* between the two reads of a LinearFade's first render
RenderAt(dt, x) ==
    /\ dt = 0 \/ ReadsClockTwice(fade)
    /\ now' = now + dt
    /\ UNCHANGED <<useFastFades, config, cursor, nfades, faulty>>
    /\ UNCHANGED hvars
    /\ \E r \in {RendererRender(config, cursor, activePlaylist, nextPlaylist, fade,
                               now, now + dt, x)} :
          /\ activePlaylist' = r.activePlaylist
          /\ nextPlaylist' = r.nextPlaylist
          /\ fade' = r.fade
          /\ call' = r.call
          /\ endSeen' = IF r.fade.type = NoneStr THEN FALSE
                        ELSE endSeen \/ \E i \in 1..Len(r.call.log) :
                                            r.call.log[i].role = "end"

Render(dt, x) ==
    /\ now + dt <= MaxTime
    /\ RenderAt(dt, x)

\* fade f is held and has rendered at least once
InFlight(f) ==
    /\ f.type # NoneStr
    /\ IF f.type = "LinearFade" THEN f.start # NoStart ELSE f.fade1.start # NoStart

\* Renderer.advanceCurrentPlaylist(fadeTime)
AdvanceCurrentPlaylist(fadeTime) ==
    /\ nfades < MaxFades
    /\ activePlaylist # NoneStr                 \* else: raise Exception
    /\ activePlaylist \in PlaylistNames(config)
    /\ \E c \in AdvanceTargets(config, cursor, activePlaylist) :
         LET selection == Selection(config, cursor, activePlaylist)
             cur2 == [cursor EXCEPT ![activePlaylist] = c]
             req == [kind |-> "advance", from |-> activePlaylist,
                     target |-> activePlaylist]
             new == LinearFade(selection, Selection(config, cur2, activePlaylist),
                               fadeTime)
             built == [new EXCEPT !.id = nfades + 1, !.by = req]
         IN /\ cursor' = cur2
            /\ fade' = InstallFade(fade, built)
            /\ call' = [NoCall EXCEPT !.op = "advance", !.replaced = InFlight(fade)]
    /\ nfades' = nfades + 1
    /\ endSeen' = FALSE
    /\ UNCHANGED <<useFastFades, config, activePlaylist, nextPlaylist, now, faulty>>
    /\ UNCHANGED hvars

\* Renderer.swapPlaylists(nextPlaylist, intermediatePlaylist, advanceAfterFadeOut, fadeTime)
SwapPlaylists(target, intermediate, advanceAfterFadeOut, fadeTime) ==
    /\ nfades < MaxFades
    /\ activePlaylist \in PlaylistNames(config)
    /\ target \in PlaylistNames(config)
    /\ intermediate \in PlaylistNames(config) \cup {NoneStr}
    /\ LET req == [kind |-> "swap", from |-> activePlaylist, target |-> target]
           new == SwapFade(config, cursor, useFastFades, activePlaylist, target,
                           intermediate, fadeTime)
           middleMoves == ~useFastFades /\ intermediate # NoneStr /\ advanceAfterFadeOut
           built == [new EXCEPT !.id = nfades + 1, !.by = req]
       IN /\ nextPlaylist' = target
          /\ fade' = InstallFade(fade, built)
          /\ call' = [NoCall EXCEPT !.op = "swap", !.replaced = InFlight(fade),
                                    !.intermediate = intermediate,
                                    !.advanceAfterFadeOut = advanceAfterFadeOut]
          /\ \E c1 \in IF middleMoves
                       THEN AdvanceTargets(config, cursor, intermediate)
                       ELSE {0} :
               LET cur1 == IF middleMoves
                           THEN [cursor EXCEPT ![intermediate] = c1] ELSE cursor
               IN IF advanceAfterFadeOut
                  THEN \E c2 \in AdvanceTargets(config, cur1, activePlaylist) :
                          cursor' = [cur1 EXCEPT ![activePlaylist] = c2]
                  ELSE cursor' = cur1
    /\ nfades' = nfades + 1
    /\ endSeen' = FALSE
    /\ UNCHANGED <<useFastFades, config, activePlaylist, now, faulty>>
    /\ UNCHANGED hvars

Next ==
    \/ Tick
    \/ \E dt \in 0..MaxDrift, x \in FrameInputs : Render(dt, x)
    \/ \E ft \in AdvanceFadeTimes : AdvanceCurrentPlaylist(ft)
    \/ \E target \in AllNames, intermediate \in {NoneStr, "T"},
          adv \in BOOLEAN, ft \in SwapFadeTimes :
          SwapPlaylists(target, intermediate, adv, ft)

Init == RInit /\ NoFaults /\ HInit

Spec == Init /\ [][Next]_vars

\* The Renderer with render called over and over while the clock advances:
\* requests come up to MaxTime; while a fade is held the clock goes on past
\* MaxTime, one tick after each render call
LiveTick ==
    /\ \/ now < MaxTime
       \/ fade # NoFade /\ call.op = "render" /\ now < MaxTime + LiveRoom
    /\ now' = now + 1
    /\ call' = NoCall
    /\ UNCHANGED <<useFastFades, config, cursor, activePlaylist, nextPlaylist,
                   fade, nfades, endSeen, faulty>>
    /\ UNCHANGED hvars

LiveRender(dt, x) ==
    /\ now + dt <= MaxTime + LiveRoom
    /\ RenderAt(dt, x)

LiveRenders == \E dt \in 0..MaxDrift, x \in FrameInputs : LiveRender(dt, x)

LiveAdvance(fadeTime) ==
    /\ now <= MaxTime
    /\ AdvanceCurrentPlaylist(fadeTime)

LiveSwap(target, intermediate, advanceAfterFadeOut, fadeTime) ==
    /\ now <= MaxTime
    /\ SwapPlaylists(target, intermediate, advanceAfterFadeOut, fadeTime)

PositiveFadeTimes == SwapFadeTimes \ {Zero}

LiveNext ==
    \/ LiveTick
    \/ LiveRenders
    \/ \E ft \in AdvanceFadeTimes : LiveAdvance(ft)
    \/ \E target \in AllNames, intermediate \in {NoneStr, "T"},
          adv \in BOOLEAN, ft \in PositiveFadeTimes :
          LiveSwap(target, intermediate, adv, ft)

\* the caller's loop renders frame after frame and its clock keeps advancing
SpecLive == Init /\ [][LiveNext]_vars /\ WF_vars(LiveTick) /\ WF_vars(LiveRenders)

\* names that are keys of no playlists dictionary
BadNames == {"X"}

\* Renderer.advanceCurrentPlaylist when activePlaylist is not a key of the
\* dictionary: _active() raises KeyError at line 68
AdvanceKeyError ==
    /\ activePlaylist \notin PlaylistNames(config)
    /\ call' = [NoCall EXCEPT !.op = "advance", !.raised = TRUE]
    /\ UNCHANGED <<useFastFades, config, cursor, activePlaylist, nextPlaylist,
                   fade, nfades, now, endSeen, faulty>>
    /\ UNCHANGED hvars

\* Renderer.swapPlaylists when a name it looks up is not a key of the
\* dictionary: KeyError from _active() at line 85, before anything is assigned,
\* or from _get(intermediatePlaylist) / _next() at lines 89-97, after line 86
\* has assigned self.nextPlaylist
SwapKeyError(target, intermediate, advanceAfterFadeOut) ==
    /\ \/ activePlaylist \notin PlaylistNames(config)
       \/ target \notin PlaylistNames(config)
       \/ /\ ~useFastFades
          /\ intermediate \notin PlaylistNames(config) \cup {NoneStr}
    /\ nextPlaylist' = IF activePlaylist \notin PlaylistNames(config)
                       THEN nextPlaylist ELSE target
    /\ call' = [NoCall EXCEPT !.op = "swap", !.raised = TRUE,
                              !.intermediate = intermediate,
                              !.advanceAfterFadeOut = advanceAfterFadeOut]
    /\ UNCHANGED <<useFastFades, config, cursor, activePlaylist, fade, nfades,
                   now, endSeen, faulty>>
    /\ UNCHANGED hvars

\* the Renderer driven with any names, also ones the dictionary does not hold
NextAnyNames ==
    \/ Next
    \/ AdvanceKeyError
    \/ \E target \in AllNames \cup BadNames, intermediate \in {NoneStr, "T"},
          adv \in BOOLEAN : SwapKeyError(target, intermediate, adv)

SpecAnyNames == Init /\ [][NextAnyNames]_vars

\* the Renderer of the three-playlist dictionary with one broken layer class
FaultsInit == RInit /\ config = "three" /\ SomeFault /\ HInit

SpecFaults == FaultsInit /\ [][Next]_vars

----------------------------------------------------------------------------
(* Properties of the Renderer and its fades *)

HasRole(log, role) == \E i \in 1..Len(log) : log[i].role = role
SceneLayers(id) == IF id = NoneStr THEN <<>> ELSE Scene(id).layers
TwoStepTypes == {"FastFade", "TwoStepLinearFade"}
Pending(f) ==
    /\ ~f.done
    /\ IF f.type = "LinearFade" THEN f.start = NoStart
       ELSE /\ f.fade1.start = NoStart /\ ~f.fade1.done
            /\ f.fade2.start = NoStart /\ ~f.fade2.done
SwapAToB == [kind |-> "swap", from |-> "A", target |-> "B"]

\* C1: in a render call with a fade installed, if the fade reports done after
\* being rendered then on return the fade reference is None and a pending
\* playlist name has become activePlaylist with nextPlaylist None; if it does
\* not report done, activePlaylist, nextPlaylist and the fade reference are
\* unchanged by the call.
C1_RenderRetiresDoneFade ==
    [][(call'.op = "render" /\ fade.type # NoneStr) =>
          IF call'.fadeAfter.done
          THEN /\ fade' = NoFade
               /\ (nextPlaylist # NoneStr =>
                      activePlaylist' = nextPlaylist /\ nextPlaylist' = NoneStr)
          ELSE /\ activePlaylist' = activePlaylist
               /\ nextPlaylist' = nextPlaylist
               /\ fade'.id = fade.id
               /\ fade' = call'.fadeAfter]_vars

C1_Witness ==
    /\ call.op = "render"
    /\ call.fadeAfter.done
    /\ call.fadeBefore.by.kind = "swap"
    /\ activePlaylist = call.fadeBefore.by.target
    /\ activePlaylist # call.fadeBefore.by.from
    /\ nextPlaylist = NoneStr
    /\ fade = NoFade

\* C2: activePlaylist changes to a playlist P only in a render call in which
\* the fade built by the swapPlaylists request for P reports done; it is never
\* committed by the completion of a different fade.
C2_CommitOnlyBySwapFade ==
    [][activePlaylist' # activePlaylist =>
          /\ call'.op = "render"
          /\ call'.fadeAfter.done
          /\ call'.fadeBefore.by.kind = "swap"
          /\ call'.fadeBefore.by.target = activePlaylist']_vars

\* C3: with the two single-scene playlists A (active) and B, after
\* swapPlaylists("B", fadeTime=2) a render call whose clock is at or after the
\* 2 s mark, measured from the fade's first render, leaves activePlaylist "B",
\* nextPlaylist None and the fade None; a render call before the mark leaves
\* activePlaylist "A"; render calls after the fade is gone change none of them.
C3_SwapScenario ==
    [][(call'.op = "render" /\ config = "two") =>
          /\ (fade.type = "LinearFade" /\ fade.by = SwapAToB
                 /\ fade.duration = TwoSeconds) =>
                IF RGeq(Rat(call'.lf.elapsed, 1), TwoSeconds)
                THEN /\ activePlaylist' = "B"
                     /\ nextPlaylist' = NoneStr
                     /\ fade' = NoFade
                ELSE /\ activePlaylist' = "A"
                     /\ fade' # NoFade
          /\ (fade = NoFade =>
                UNCHANGED <<activePlaylist, nextPlaylist, fade>>)]_vars

C3_Witness ==
    /\ config = "two"
    /\ call.op = "render"
    /\ call.fadeBefore.type = "LinearFade"
    /\ call.fadeBefore.by = SwapAToB
    /\ call.fadeBefore.duration = TwoSeconds
    /\ Rat(call.lf.elapsed, 1) = TwoSeconds
    /\ activePlaylist = "B"
    /\ nextPlaylist = NoneStr
    /\ fade = NoFade

\* C4: every advanceCurrentPlaylist or swapPlaylists request replaces the held
\* fade by a freshly constructed one in the pending state (start unset, not
\* done), and a render call renders only the fade constructed last: a
\* discarded fade is never rendered again and nothing is queued.
C4_RequestReplacesFade ==
    [][/\ (call'.op \in {"advance", "swap"} =>
              /\ nfades' = nfades + 1
              /\ fade'.id = nfades'
              /\ Pending(fade'))
       /\ ((call'.op = "render" /\ fade.type # NoneStr) =>
              /\ call'.fadeBefore.id = nfades
              /\ fade'.type # NoneStr => fade'.id = nfades)]_vars

C4_Witness ==
    /\ call.op = "swap"
    /\ call.replaced
    /\ nfades = 2
    /\ fade.id = 2
    /\ Pending(fade)

\* C5: every render call that returns applies the gamma stage exactly once, as
\* its last step, whether a fade is in progress, a fade completes in the call,
\* or the active selection is rendered directly.
C5_GammaOnceLast ==
    (call.op = "render" /\ ~call.raised) =>
        /\ Len(call.log) >= 1
        /\ call.log[Len(call.log)] = GammaEntry
        /\ \A i \in 1..(Len(call.log) - 1) : call.log[i].role # "gamma"
        /\ call.frame = GammaRender(call.composite)

C5_Witness ==
    /\ call.op = "render"
    /\ ~call.raised
    /\ call.fadeAfter.done
    /\ call.frame # call.composite

\* C6: for any LinearFade with duration d, a render call with elapsed >= d sets
\* done and leaves the frame exactly as the end scene's layers rendered it, with
\* no start-scene layer rendered; a render call with elapsed < d leaves done
\* false.
C6_DoneAtDuration ==
    (call.op = "render" /\ call.lf.rendered) =>
        IF RGeq(Rat(call.lf.elapsed, 1), call.lf.duration)
        THEN /\ call.lf.done
             /\ call.composite =
                    RenderLayers(SceneLayers(call.lf.endLayers), call.frameIn)
             /\ ~HasRole(call.log, "start")
        ELSE ~call.lf.done

\* C7: at every render call of a LinearFade that is not yet done, the output
\* frame is p * (end-scene rendering) + (1 - p) * (start-scene rendering) with
\* p = elapsed / duration in [0, 1); at elapsed = 0 it is the start-scene
\* rendering alone.
C7_WeightedBlend ==
    (call.op = "render" /\ ~call.raised /\ call.lf.rendered /\ ~call.lf.done) =>
        LET p == RDiv(Rat(call.lf.elapsed, 1), call.lf.duration)
            endR == RenderLayers(SceneLayers(call.lf.endLayers), call.frameIn)
            startR == RenderLayers(SceneLayers(call.lf.startLayers), Zero)
        IN /\ RGeq(p, Zero)
           /\ RLess(p, One)
           /\ call.composite = RAdd(RMul(endR, p), RMul(startR, RSub(One, p)))
           /\ (call.lf.elapsed = 0 => call.composite = startR)

C7_Witness ==
    /\ call.op = "render"
    /\ ~call.raised
    /\ call.lf.rendered
    /\ ~call.lf.done
    /\ call.lf.elapsed > 0
    /\ call.lf.startLayers # NoneStr
    /\ call.lf.endLayers # NoneStr

\* C8: a TwoStepFade is done iff its second sub-fade is done, and a render call
\* that began with the first sub-fade not done does not leave it done.
C8_TwoStepDone ==
    [][(call'.op = "render" /\ fade.type \in TwoStepTypes) =>
          /\ call'.fadeAfter.done <=> call'.fadeAfter.fade2.done
          /\ ~fade.fade1.done => ~call'.fadeAfter.done]_vars

C8_Witness ==
    /\ call.op = "render"
    /\ call.fadeAfter.type \in TwoStepTypes
    /\ call.fadeAfter.done
    /\ call.fadeAfter.fade2.done

\* C9: no render call of a FastFade renders both a start-scene and an end-scene
\* layer: before the fade-out half is done only start-scene layers are
\* rendered, afterwards only end-scene layers, and no start-scene layer is
\* rendered once an end-scene layer has been.
C9_FastFadeNeverBoth ==
    [][(call'.op = "render" /\ fade.type = "FastFade") =>
          /\ ~(HasRole(call'.log, "start") /\ HasRole(call'.log, "end"))
          /\ ~fade.fade1.done => ~HasRole(call'.log, "end")
          /\ fade.fade1.done => ~HasRole(call'.log, "start")
          /\ endSeen => ~HasRole(call'.log, "start")]_vars

C9_Witness ==
    /\ call.op = "render"
    /\ call.fadeBefore.type = "FastFade"
    /\ call.fadeBefore.fade1.done
    /\ call.fadeBefore.fade1.duration # Zero
    /\ HasRole(call.log, "end")
    /\ endSeen

\* C14: swapPlaylists builds its fade from the source playlist's selection as
\* it was before any cursor moved to the target playlist's current selection;
\* with advanceAfterFadeOut it then advances the source playlist's cursor
\* exactly once, without it no cursor moves; in neither case does the target
\* playlist's cursor move or activePlaylist change.
C14_SwapCursors ==
    [][call'.op = "swap" =>
          /\ fade'.startLayers = Selection(config, cursor, activePlaylist)
          /\ fade'.endLayers = Selection(config, cursor, nextPlaylist')
          /\ activePlaylist' = activePlaylist
          /\ cursor'[nextPlaylist'] = cursor[nextPlaylist']
          /\ IF call'.advanceAfterFadeOut
             THEN cursor'[activePlaylist] \in
                      AdvanceTargets(config, cursor, activePlaylist)
             ELSE cursor' = cursor]_vars

\* the LinearFade that a render call of fade f renders, picked in fade g (the
\* same fade object before or after the call)
Rendered(f, g) ==
    IF f.type = "LinearFade" THEN g
    ELSE IF ~f.fade1.done THEN g.fade1 ELSE g.fade2

\* C15: a LinearFade captures its start instant exactly once, in its first
\* render call, and never changes it afterwards; it reports done in the first
\* render call that is at least duration after the first one, and in no
\* earlier call.
C15_StartCapturedOnce ==
    (call.op = "render" /\ call.lf.rendered) =>
        LET before == Rendered(call.fadeBefore, call.fadeBefore)
            after == Rendered(call.fadeBefore, call.fadeAfter)
        IN /\ ~before.done
           /\ call.lf.first <=> before.start = NoStart
           /\ after.start # NoStart
           /\ call.lf.first => after.start \in (now - MaxDrift)..now
           /\ ~call.lf.first => after.start = before.start
           /\ after.done <=> RGeq(Rat(now - after.start, 1), after.duration)

\* C19: whatever advanceCurrentPlaylist and swapPlaylists requests were made
\* (a swap whose target is the active or the intermediate playlist included),
\* the first render call after the call in which a fade completed and was
\* retired renders, directly, the scene that was that fade's end scene.
C19_SceneContinuity ==
    [][(/\ call.op = "render"
        /\ call.fadeAfter.done
        /\ fade = NoFade
        /\ call'.op = "render") =>
          call'.log = Entries("direct", call.fadeBefore.endLayers) \o <<GammaEntry>>]_vars

\* C20: in every state reached by render, advanceCurrentPlaylist and
\* swapPlaylists calls with valid playlist names, a pending playlist name
\* implies an installed fade, and activePlaylist names a playlist of the
\* playlists mapping.
C20_PendingImpliesFade ==
    /\ nextPlaylist # NoneStr => fade # NoFade
    /\ nextPlaylist \in PlaylistNames(config) \cup {NoneStr}
    /\ activePlaylist \in PlaylistNames(config)

C20_Witness ==
    /\ call.op = "render"
    /\ nextPlaylist # NoneStr
    /\ nextPlaylist # activePlaylist
    /\ InFlight(fade)
    /\ nfades = 2

\* C21: a swapPlaylists call that fails because the target or the
\* intermediate playlist name is not in the playlists mapping leaves
\* activePlaylist, nextPlaylist, the fade reference and every playlist cursor
\* as they were.
C21_FailedSwapChangesNothing ==
    [][(call'.op = "swap" /\ call'.raised) =>
          UNCHANGED <<activePlaylist, nextPlaylist, fade, cursor>>]_vars

\* C22: every fade of positive duration(s) installed by advanceCurrentPlaylist
\* or swapPlaylists terminates: while render keeps being called with an
\* advancing clock and the requests have come to an end, a held fade leads to
\* the state where the fade has reported done and has been retired: the fade
\* reference is None and no playlist is pending any more.
C22_EveryFadeTerminates ==
    (fade # NoFade) ~> (fade = NoFade /\ nextPlaylist = NoneStr)

C22_Witness ==
    /\ call.op = "render"
    /\ call.fadeBefore.type \in TwoStepTypes
    /\ call.fadeBefore.id = MaxFades
    /\ call.fadeAfter.done
    /\ now > MaxTime
    /\ fade = NoFade
    /\ nextPlaylist = NoneStr
    /\ activePlaylist = call.fadeBefore.by.target

\* the layers of a list whose render() does not raise
Healthy(layers) == SelectSeq(layers, LAMBDA c : c \notin faulty)

----------------------------------------------------------------------------
(* Properties of HeadsetResponsiveEffectLayer *)

\* C10: for a freshly constructed layer (empty history, no level), the render
\* call that receives the first valid reading, of value x, passes response
\* level x to render_responsive in that same call.
C10_FirstReadingEmitted ==
    (hcall.op = "render" /\ hcall.accepted /\ hcall.history = 0
        /\ hcall.levelBefore = NoLevel) =>
        hcall.response_level = hcall.value

\* C11: when the layer is fed distinct valid readings of one value v, one a
\* second, for longer than its smoothing window, every render call from then
\* on (with a new reading or between readings) passes level v to
\* render_responsive.  The window is 1 s; after the third reading has been
\* accepted, each in the frame it arrived in, the feed has lasted 2 s and the
\* whole history holds v.
C11_ConstantFeedConverges ==
    (/\ hcall.op = "render"
     /\ nreadings >= 3
     /\ Len(timestamps) >= 3
     /\ \A i \in 1..(Len(timestamps) - 1) : timestamps[i] - timestamps[i + 1] = 2) =>
        hcall.response_level = eeg.value

\* C12: a render call with no new reading and no pending fade passes the
\* previously resolved level, last_response_level, unchanged; it passes None
\* only if no level was ever resolved.
C12_NoReadingEmitsLastLevel ==
    (hcall.op = "render" /\ ~hcall.accepted /\ hcall.fadingBefore = NoLevel) =>
        /\ hcall.response_level = hcall.levelBefore
        /\ last_response_level = hcall.levelBefore

\* C16: in a render call with no new reading while a fade toward a target t is
\* pending (any t, 0 included): if at least 1 s has passed since the newest
\* reading's timestamp the fade is finalized (last_response_level becomes t,
\* fading_to is cleared) and t is passed on; otherwise the level passed on is
\* elapsed*t + (1-elapsed)*last_response_level and the stored state is
\* unchanged.
C16_PendingFadeStep ==
    [][(hcall'.op = "render" /\ ~hcall'.accepted /\ fading_to # NoLevel) =>
          LET elapsed == Seconds(hnow - timestamps[1])
          IN IF RGeq(elapsed, One)
             THEN /\ last_response_level' = fading_to
                  /\ fading_to' = NoLevel
                  /\ hcall'.response_level = fading_to
                  /\ UNCHANGED <<measurements, timestamps, last_eeg>>
             ELSE /\ hcall'.response_level =
                         RAdd(RMul(elapsed, fading_to),
                              RMul(RSub(One, elapsed), last_response_level))
                  /\ UNCHANGED <<measurements, timestamps, last_eeg,
                                 last_response_level, fading_to>>]_vars

\* an entry of age ticks (relative to the newest timestamp) is past the window
PastWindow(ticks) == RLess(smooth_response_over_n_secs, Seconds(ticks))

\* C17: after a render call that accepts a reading, measurements and timestamps
\* have equal length, newest first, and hold every entry whose age relative to
\* the newest timestamp is within the smoothing window plus the single newest
\* entry past the window, if there is one: at most one retained entry is older
\* than the window and a history inside the window is kept in full.
C17_RetainedHistory ==
    [][(hcall'.op = "render" /\ hcall'.accepted) =>
          LET ms1 == <<eeg.value>> \o measurements
              ts1 == <<hnow>> \o timestamps
              inside == {i \in 1..Len(ts1) : ~PastWindow(hnow - ts1[i])}
              past == {i \in 1..Len(ts1) : PastWindow(hnow - ts1[i])}
              n == Len(timestamps')
              keptPast == {i \in 1..n : PastWindow(timestamps'[1] - timestamps'[i])}
          IN /\ Len(measurements') = n
             /\ n <= Len(ts1)
             /\ timestamps' = SubSeq(ts1, 1, n)
             /\ measurements' = SubSeq(ms1, 1, n)
             /\ \A i \in 1..(n - 1) : timestamps'[i] >= timestamps'[i + 1]
             /\ inside \subseteq 1..n
             /\ Cardinality(keptPast) <= 1
             /\ past = {} => n = Len(ts1)
             /\ past # {} =>
                   /\ keptPast = {n}
                   /\ \A i \in past : i >= n]_vars

C17_Witness ==
    /\ hcall.op = "render"
    /\ hcall.accepted
    /\ Len(timestamps) = 3
    /\ hcall.history = 3
    /\ ~PastWindow(timestamps[1] - timestamps[2])
    /\ PastWindow(timestamps[1] - timestamps[3])

\* C18: when a new reading leaves at least two retained measurements, their
\* arithmetic mean m becomes the current level at once if no level has ever
\* been set; if a level has been set (whatever its value, 0 included) the level
\* stays as it is in that call (as resolved from a fade still pending when the
\* reading arrived) and m becomes the pending target fading_to.
C18_MeanStartsFade ==
    [][(hcall'.op = "render" /\ hcall'.accepted /\ Len(measurements') >= 2) =>
          LET m == RDiv(Sum(measurements'), Rat(Len(measurements'), 1))
              level == IF fading_to # NoLevel THEN fading_to
                       ELSE last_response_level
          IN IF level = NoLevel
             THEN last_response_level' = m /\ fading_to' = NoLevel
             ELSE last_response_level' = level /\ fading_to' = m]_vars

====
